---- MODULE Spec2Model ----
(***************************************************************************)
(* The BIA document pipeline of self-updating-bia-webapp: the POST         *)
(* /api/bia/generate and POST /api/bia/approve handlers, the predictive    *)
(* engine wrapper (RoosterService), the section builders and the           *)
(* confidence aggregator of BIAService.                                    *)
(*                                                                         *)
(* Confidence scores are held in hundredths (0.75 is 75).  A mean is kept  *)
(* as an exact fraction [num, den]; Math.round(x * 100) / 100 is rounding  *)
(* half up of that fraction, in hundredths.                                *)
(***************************************************************************)
EXTENDS Integers, Sequences, FiniteSets, TLC

VARIABLES
    pc,              \* position of the POST /generate handler
    body,            \* req.body of the generate request in flight
    settled,         \* the five adapter promises given to Promise.allSettled
    proc,            \* the python3 child process of executeRoosterPython
    inputFile,       \* TRUE while temp_input_<now>.json exists
    outputFile,      \* content of temp_output_<now>.json: absent, malformed or valid
    predictions,     \* value held by generatePredictions / predictiveAnalysis
    biaDocument,     \* the document generateBIA returned to the handler
    storeResult,     \* what the persistence store answered to storeBIA
    response,        \* the HTTP answer of the generate request
    bia_documents,   \* rows of table bia_documents
    bia_audit_log,   \* rows of table bia_audit_log
    fusionRecords,   \* ids pushed to the external record store
    apc,             \* position of the POST /approve handler
    abody,           \* req.body of the approve request in flight
    aresponse,       \* the HTTP answer of the approve request
    afusionResult,   \* what pushToFusion gave the approve handler
    fpc,             \* position of the POST /api/fusion/push handler
    fbody,           \* req.body of the push request in flight
    fresponse,       \* the HTTP answer of the push request
    today,           \* the calendar month new Date() falls in, counted from a first month
    now,             \* Date.now(), in milliseconds from a first instant
    requests,        \* the generate requests in flight side by side
    invocations,     \* the generatePredictions calls in flight side by side
    tempFiles,       \* the temp_*.json files of the working directory, by name
    healthChecks,    \* the six promises getDataSourceHealth gives to Promise.allSettled
    health           \* what getDataSourceHealth returned

vars == <<pc, body, settled, proc, inputFile, outputFile, predictions, biaDocument,
          storeResult, response, bia_documents, bia_audit_log, fusionRecords, apc, abody,
          aresponse, afusionResult, fpc, fbody, fresponse, today, now, requests,
          invocations, tempFiles, healthChecks, health>>

genVars == <<pc, body, settled, proc, inputFile, outputFile, predictions, biaDocument,
             storeResult, response>>

apprVars == <<apc, abody, aresponse, afusionResult>>

pushVars == <<fpc, fbody, fresponse>>

\* the state of the operations beside the generate, approve and push handlers
otherVars == <<today, now, requests, invocations, tempFiles, healthChecks, health>>

----------------------------------------------------------------------------
(* JavaScript values *)

\* null, and the value of an absent request or response
Null == [null |-> TRUE]

\* undefined, as a number: the value of a missing numeric field
Undefined == 0 - 1

\* a || d on numbers: 0 and undefined are falsy
OrElse(a, d) == IF a = 0 \/ a = Undefined THEN d ELSE a

\* a string field copied without a fallback
KeepStr(a, d) == a

\* a || d on strings: "" is falsy
OrElseStr(a, d) == IF a = "" THEN d ELSE a

\* data?.field on a numeric field
Num(data, field) ==
    IF data = Null \/ field \notin DOMAIN data THEN Undefined ELSE data[field]

\* data?.field on a string field
Str(data, field) ==
    IF data = Null \/ field \notin DOMAIN data THEN "" ELSE data[field]

\* data?.outer?.field on a string field
StrIn(data, outer, field) ==
    IF data = Null \/ outer \notin DOMAIN data \/ field \notin DOMAIN data[outer]
    THEN "" ELSE data[outer][field]

\* data?.outer?.field on a numeric field
NumIn(data, outer, field) ==
    IF data = Null \/ outer \notin DOMAIN data \/ field \notin DOMAIN data[outer]
    THEN Undefined ELSE data[outer][field]

Min(a, b) == IF a <= b THEN a ELSE b

RECURSIVE Sum(_)
Sum(s) == IF s = <<>> THEN 0 ELSE Head(s) + Sum(Tail(s))

\* Math.round(x * 100) without the division by 100: a percentage
RoundPercent(num, den) == 100 * ((2 * num + den) \div (2 * den))

\* Math.round(x * 100) / 100 of the fraction x = num / den (both in hundredths):
\* Math.round rounds half up
Round2(num, den) == (2 * num + den) \div (2 * den)

----------------------------------------------------------------------------
(* Request bodies and adapter payloads *)

FunctionTypes == {"product", "platform", "support", "infrastructure", "compliance"}

\* the generate bodies the model sends: a valid one and malformed ones
GenerateBodies ==
    [functionName : {"", "PaymentsCore"}, functionType : {"product", "gadget"}]

\* a handler without the validation chain
AcceptAny(b) == TRUE

\* the express-validator chain of POST /generate
ValidGenerate(b) == b.functionName # "" /\ b.functionType \in FunctionTypes

DataSources == {"registry", "pagerDuty", "hr", "financial", "monitoring"}

\* confidence_score values an adapter payload may carry: 0, the mock's value
\* and, for the registry, a second value
PayloadConfidence(s) ==
    CASE s = "registry"   -> {0, 70, 90}
      [] s = "pagerDuty"  -> {0, 80}
      [] s = "hr"         -> {0, 60}
      [] s = "financial"  -> {0, 75}
      [] s = "monitoring" -> {0, 90}

\* the payload of each adapter, with the fields the section builders read;
\* a list or an object is written as the string that names it
Payload(s, c) ==
    CASE s = "registry" ->
            [reliability_tier |-> "Tier 1", slack_channel |-> "#unknown",
             documentation_url |-> "https://docs.internal.block.xyz/unknown",
             runbook_url |-> "https://runbooks.internal.block.xyz/unknown",
             dependencies |-> "[Authentication Service, Database Cluster, Cache Layer]",
             technology_stack |-> "[Node.js, PostgreSQL, Redis, Kubernetes]",
             deployment_info |-> "{regions, replicas: 3, auto_scaling: true}",
             confidence_score |-> c, last_updated |-> "now"]
      [] s = "pagerDuty" ->
            [escalation_policy |-> "L1 Ops", on_call_schedule |-> "Follow-the-sun rotation",
             confidence_score |-> c, last_updated |-> "now"]
      [] s = "hr" ->
            [team_size |-> "25", key_personnel |-> "[key personnel]",
             manager_chain |-> "[manager chain]",
             business_hours |-> "24/7 on-call rotation", confidence_score |-> c,
             last_updated |-> "now"]
      [] s = "financial" ->
            [daily_revenue_impact |-> "$1.2M", monthly_revenue_impact |-> "$36M",
             active_customers |-> "250000", transaction_volume |-> "{transaction volume}",
             customer_segments |-> "{customer segments}", confidence_score |-> c,
             last_updated |-> "now"]
      [] s = "monitoring" ->
            [current_availability |-> "99.85%", sla_target |-> "99.9%",
             performance_metrics |-> [avg_response_time |-> "250ms"],
             confidence_score |-> c, last_updated |-> "now"]

\* a payload that came back without the fields the section builders read and
\* without a confidence_score
SparsePayload(s) == [last_updated |-> "now"]

\* the Error each adapter's catch block throws
AdapterError(s) ==
    CASE s = "registry"   -> "Failed to fetch Registry data"
      [] s = "pagerDuty"  -> "Failed to fetch PagerDuty data"
      [] s = "hr"         -> "Failed to fetch HR data"
      [] s = "financial"  -> "Failed to fetch Financial data"
      [] s = "monitoring" -> "Failed to fetch Monitoring data"

NoPromise == [status |-> "none"]
Pending == [status |-> "pending"]
Fulfilled(v) == [status |-> "fulfilled", value |-> v]
Rejected(e) == [status |-> "rejected", reason |-> e]

\* the outcomes of one adapter call
AdapterOutcomes(s) ==
    {Fulfilled(Payload(s, c)) : c \in PayloadConfidence(s)} \cup {Rejected(AdapterError(s))}

\* x.status === 'fulfilled' ? x.value : null
ValueOrNull(x) == IF x.status = "fulfilled" THEN x.value ELSE Null

----------------------------------------------------------------------------
(* RoosterService: the prediction objects *)

\* the JSON documents the engine may leave in the output file: overall_confidence
\* missing, 0, or a score
RoosterData == {[overall_confidence |-> c] : c \in {Undefined, 0, 95}}

formatRoosterOutput(roosterData) ==
    [rto_analysis |->
        [current_estimate |-> "45 minutes", confidence_score |-> 80,
         twelve_month_forecast |-> "35 minutes", improvement_potential |-> "22%"],
     rpo_analysis |->
        [current_estimate |-> "15 minutes", confidence_score |-> 75,
         twelve_month_forecast |-> "10 minutes", improvement_potential |-> "33%"],
     risk_assessment |-> [overall_risk |-> "Medium"],
     performance_predictions |-> [availability_forecast |-> "99.92%"],
     scenarios |-> "{25/35/60 minutes}",
     generated_at |-> "now",
     rooster_version |-> "2.0",
     confidence_overall |-> OrElse(roosterData.overall_confidence, 82)]

getFallbackPredictions(functionName) ==
    [rto_analysis |->
        [current_estimate |-> "45 minutes", confidence_score |-> 60,
         twelve_month_forecast |-> "40 minutes", improvement_potential |-> "11%"],
     rpo_analysis |->
        [current_estimate |-> "15 minutes", confidence_score |-> 60,
         twelve_month_forecast |-> "12 minutes", improvement_potential |-> "20%"],
     risk_assessment |-> [overall_risk |-> "Medium"],
     performance_predictions |-> [availability_forecast |-> "99.5%"],
     scenarios |-> "{30/45/90 minutes}",
     generated_at |-> "now",
     rooster_version |-> "fallback",
     confidence_overall |-> 60,
     note |-> "Fallback predictions used - integrate with Rooster for enhanced accuracy"]

\* the settlement of the promise executeRoosterPython returns, once the child
\* has closed with `code` and left `out` in the output file
RoosterClose(code, out, roosterData) ==
    IF code = 0
    THEN IF out = "valid"
         THEN [state |-> "resolved", value |-> formatRoosterOutput(roosterData)]
         ELSE [state |-> "rejected", reason |-> "Rooster output parse error"]
    ELSE [state |-> "rejected", reason |-> "Rooster failed with code"]

\* a catch block that logs and rethrows
GeneratePredictionsRethrows(functionName, error) == [threw |-> TRUE, error |-> error]

\* the outer catch of generatePredictions: what the call gives its caller
\* once `error` was thrown inside its try block
GeneratePredictionsCatch(functionName, error) ==
    [threw |-> FALSE, value |-> getFallbackPredictions(functionName)]

----------------------------------------------------------------------------
(* BIAService: section builders *)

\* the property names every object literal inherits from Object.prototype
ObjectPrototypeKeys == {"constructor", "toString"}

\* what an inherited property holds: a function, which is truthy
Inherited(key) == "[Function: " \o key \o "]"

\* a lookup that finds no property
LookupMissing(table, key) == ""

\* table[key] on an object literal: an own property, else one inherited from
\* Object.prototype, else undefined (written "")
Lookup(table, key) ==
    IF key \in DOMAIN table THEN table[key]
    ELSE IF key \in ObjectPrototypeKeys THEN Inherited(key)
    ELSE ""

classifications ==
    [product        |-> "Critical - Customer Facing",
     platform       |-> "Important - Business Enabling",
     support        |-> "Supporting - Internal Operations",
     infrastructure |-> "Critical - Foundation Service",
     compliance     |-> "Important - Regulatory Required"]

getBCMClassification(functionType) ==
    OrElseStr(Lookup(classifications, functionType), "To Be Determined")

mtpds ==
    [product |-> "2 hours", platform |-> "4 hours", support |-> "24 hours",
     infrastructure |-> "1 hour", compliance |-> "8 hours"]

getMTPD(functionType) == OrElseStr(Lookup(mtpds, functionType), "4 hours")

mbcos ==
    [product        |-> "80% capacity within MTPD",
     platform       |-> "60% capacity within MTPD",
     support        |-> "50% capacity within MTPD",
     infrastructure |-> "95% capacity within MTPD",
     compliance     |-> "70% capacity within MTPD"]

getMBCO(functionType) == OrElseStr(Lookup(mbcos, functionType), "60% capacity within MTPD")

resources ==
    [product        |-> "Dedicated DR site, 24/7 support",
     platform       |-> "Hot standby, business hours support",
     support        |-> "Workarounds, extended hours support",
     infrastructure |-> "Real-time replication, immediate response",
     compliance     |-> "Backup systems, priority restoration"]

getResourceRequirements(functionType) ==
    OrElseStr(Lookup(resources, functionType), "Standard backup procedures")

requirements ==
    [product        |-> "[PCI-DSS, SOX Controls, Data Privacy]",
     platform       |-> "[SOX Controls, Data Privacy, Security Standards]",
     support        |-> "[Data Privacy, Access Controls]",
     infrastructure |-> "[Security Standards, Audit Logging, Change Management]",
     compliance     |-> "[All Applicable Standards, Regulatory Reporting, Audit Trail]"]

getComplianceRequirements(functionType) ==
    OrElseStr(Lookup(requirements, functionType), "[Standard Controls]")

getDataClassification(functionType) ==
    IF functionType = "product" THEN "PII/Financial" ELSE "Internal/Confidential"

getRegulatoryImpact(functionType) ==
    IF functionType = "product" THEN "High - Customer facing"
    ELSE "Medium - Internal operations"

entities ==
    [na |-> "Block, Inc. (Delaware)", eu |-> "Block Europe Limited (Ireland)",
     apac |-> "Block Japan KK"]

getLegalEntity(region) == OrElseStr(Lookup(entities, region), "TBD")

frameworks == [na |-> "SOX/FDIC", eu |-> "GDPR/DORA", apac |-> "JFSA (Japan)"]

getRegulatoryFramework(region) == OrElseStr(Lookup(frameworks, region), "Local Regulations")

residency == [na |-> "US/Canada Only", eu |-> "EU Only", apac |-> "Local + Singapore"]

getDataResidency(region) == OrElseStr(Lookup(residency, region), "Local Requirements")

rtos == [na |-> "2 hours", eu |-> "4 hours", apac |-> "6 hours"]

getRegionalRTO(region) == OrElseStr(Lookup(rtos, region), "4 hours")

rpos == [na |-> "30 minutes", eu |-> "1 hour", apac |-> "2 hours"]

getRegionalRPO(region) == OrElseStr(Lookup(rpos, region), "1 hour")

\* new Date() as a calendar date: the year, counted from a first year, and
\* the month as getMonth() gives it, 0 to 11
DateOf(months) == [year |-> months \div 12, month |-> months % 12]

\* date.setMonth(m): months past December roll over into the next year
setMonth(date, m) == [year |-> date.year + m \div 12, month |-> m % 12]

\* format(date, 'yyyy-MM-dd'): MM counts from 1 (the day of the month is
\* left out of the model)
format(date) == [yyyy |-> date.year, MM |-> date.month + 1]

\* the current date formatted as it is, with no quarter added
getTestDateToday(date) == format(date)

getNextTestDate(date) == format(setMonth(date, date.month + 3))

generatePersonnelSection(hrData, pagerDutyData) ==
    [team_size |-> OrElseStr(Str(hrData, "team_size"), "Unknown"),
     key_personnel |-> OrElseStr(Str(hrData, "key_personnel"), "[TBD personnel]"),
     manager_chain |->
        OrElseStr(Str(hrData, "manager_chain"), "[Team Lead, Manager, Director, VP]"),
     escalation_policy |->
        OrElseStr(Str(pagerDutyData, "escalation_policy"), "Standard escalation path"),
     on_call_schedule |->
        OrElseStr(Str(pagerDutyData, "on_call_schedule"), "24/7 rotation"),
     business_hours |-> OrElseStr(Str(hrData, "business_hours"), "24/7 operations"),
     confidence_score |->
        Min(OrElse(Num(hrData, "confidence_score"), 50),
            OrElse(Num(pagerDutyData, "confidence_score"), 50)),
     auto_populated |-> TRUE]

generateBusinessImpactSection(financialData, preds) ==
    [daily_revenue_impact |-> OrElseStr(Str(financialData, "daily_revenue_impact"), "TBD"),
     monthly_revenue_impact |->
        OrElseStr(Str(financialData, "monthly_revenue_impact"), "TBD"),
     active_customers |-> OrElseStr(Str(financialData, "active_customers"), "TBD"),
     transaction_volume |->
        OrElseStr(Str(financialData, "transaction_volume"), "{daily: TBD, peak_hourly: TBD}"),
     customer_segments |->
        OrElseStr(Str(financialData, "customer_segments"),
                  "{enterprise: TBD, smb: TBD, consumer: TBD}"),
     predictive_impact |->
        [twelve_month_forecast |->
            OrElseStr(StrIn(preds, "performance_predictions", "availability_forecast"),
                      "TBD"),
         risk_level |->
            OrElseStr(StrIn(preds, "risk_assessment", "overall_risk"), "Medium"),
         improvement_potential |->
            OrElseStr(StrIn(preds, "rto_analysis", "improvement_potential"), "TBD")],
     confidence_score |-> OrElse(Num(financialData, "confidence_score"), 60),
     auto_populated |-> TRUE]

generateTechnologySection(registryData) ==
    [core_technologies |-> OrElseStr(Str(registryData, "technology_stack"), "[Unknown]"),
     service_dependencies |-> OrElseStr(Str(registryData, "dependencies"), "[Unknown]"),
     reliability_tier |-> OrElseStr(Str(registryData, "reliability_tier"), "Unknown"),
     deployment_info |->
        OrElseStr(Str(registryData, "deployment_info"),
                  "{regions: [Unknown], replicas: Unknown, auto_scaling: Unknown}"),
     documentation |->
        [runbook_url |-> OrElseStr(Str(registryData, "runbook_url"), "TBD"),
         documentation_url |-> OrElseStr(Str(registryData, "documentation_url"), "TBD"),
         slack_channel |-> OrElseStr(Str(registryData, "slack_channel"), "TBD")],
     confidence_score |-> OrElse(Num(registryData, "confidence_score"), 70),
     auto_populated |-> TRUE]

generateRecoverySection(preds, monitoringData) ==
    [rto |->
        [current |-> OrElseStr(StrIn(preds, "rto_analysis", "current_estimate"), "4 hours"),
         target |->
            OrElseStr(StrIn(preds, "rto_analysis", "twelve_month_forecast"), "2 hours"),
         confidence |-> OrElse(NumIn(preds, "rto_analysis", "confidence_score"), 70)],
     rpo |->
        [current |-> OrElseStr(StrIn(preds, "rpo_analysis", "current_estimate"), "1 hour"),
         target |->
            OrElseStr(StrIn(preds, "rpo_analysis", "twelve_month_forecast"), "30 minutes"),
         confidence |-> OrElse(NumIn(preds, "rpo_analysis", "confidence_score"), 70)],
     current_availability |->
        OrElseStr(Str(monitoringData, "current_availability"), "99.5%"),
     sla_target |-> OrElseStr(Str(monitoringData, "sla_target"), "99.9%"),
     mttr |->
        OrElseStr(StrIn(monitoringData, "performance_metrics", "avg_response_time"), "TBD"),
     scenarios |-> OrElseStr(Str(preds, "scenarios"), "{TBD scenarios}"),
     confidence_score |->
        Min(OrElse(Num(preds, "confidence_overall"), 70),
            OrElse(Num(monitoringData, "confidence_score"), 70)),
     auto_populated |-> TRUE]

generateRiskComplianceSection(registryData, functionType) ==
    [compliance_requirements |-> getComplianceRequirements(functionType),
     data_classification |-> getDataClassification(functionType),
     regulatory_impact |-> getRegulatoryImpact(functionType),
     confidence_score |-> 80,
     auto_populated |-> TRUE]

generateISO22301Section(functionType, preds) ==
    [business_function_classification |-> getBCMClassification(functionType),
     mtpd |-> getMTPD(functionType),
     mbco |-> getMBCO(functionType),
     resource_requirements |-> getResourceRequirements(functionType),
     testing_requirements |->
        [frequency |-> "Quarterly", scope |-> "Full system recovery",
         success_criteria |-> "RTO/RPO targets met",
         next_test_date |-> getNextTestDate(DateOf(today))],
     risk_assessment |->
        IF preds = Null THEN [overall_risk |-> "Medium"] ELSE preds.risk_assessment,
     confidence_score |-> 85,
     auto_populated |-> TRUE]

\* regionalOverlays.map(overlay => ({...}))
generateRegionalOverlays(regionalOverlays) ==
    [i \in DOMAIN regionalOverlays |->
        [region |-> regionalOverlays[i].region,
         legal_entity |-> getLegalEntity(regionalOverlays[i].region),
         regulatory_framework |-> getRegulatoryFramework(regionalOverlays[i].region),
         data_residency |-> getDataResidency(regionalOverlays[i].region),
         regional_rto |-> getRegionalRTO(regionalOverlays[i].region),
         regional_rpo |-> getRegionalRPO(regionalOverlays[i].region),
         confidence_score |-> 75,
         auto_populated |-> TRUE]]

----------------------------------------------------------------------------
(* BIAService: data source summary and confidence aggregation *)

\* one entry of the data_sources summary
SourceEntry(name, data, field) ==
    IF data = Null THEN <<>>
    ELSE <<[name |-> name, status |-> "connected", confidence |-> Num(data, field)]>>

generateDataSourceSummary(autoPopulatedData) ==
    SourceEntry("Registry (Snowflake)", autoPopulatedData.registry, "confidence_score")
    \o SourceEntry("PagerDuty", autoPopulatedData.pagerDuty, "confidence_score")
    \o SourceEntry("HR Systems", autoPopulatedData.hr, "confidence_score")
    \o SourceEntry("Financial Systems", autoPopulatedData.financial, "confidence_score")
    \o SourceEntry("Monitoring Systems", autoPopulatedData.monitoring, "confidence_score")
    \o SourceEntry("Rooster Predictions", autoPopulatedData.predictions, "confidence_overall")

\* a score pushed for every source, 0.5 standing in for the ones not delivered
PushScoreOrDefault(data, field) == <<OrElse(Num(data, field), 50)>>

\* if (data?.field) scores.push(data.field)
PushScore(data, field) ==
    IF OrElse(Num(data, field), 0) = 0 THEN <<>> ELSE <<Num(data, field)>>

\* the scores array of calculateConfidenceScores
ConfidenceScoresArray(autoPopulatedData) ==
    PushScore(autoPopulatedData.registry, "confidence_score")
    \o PushScore(autoPopulatedData.pagerDuty, "confidence_score")
    \o PushScore(autoPopulatedData.hr, "confidence_score")
    \o PushScore(autoPopulatedData.financial, "confidence_score")
    \o PushScore(autoPopulatedData.monitoring, "confidence_score")
    \o PushScore(autoPopulatedData.predictions, "confidence_overall")

\* overallConfidence >= t, for the unrounded mean num / den and a threshold t
\* in hundredths
AtLeast(mean, t) == mean.num >= t * mean.den

\* confidence_level: the band of the unrounded mean
ConfidenceLevel(mean) ==
    IF AtLeast(mean, 80) THEN "High" ELSE IF AtLeast(mean, 60) THEN "Medium" ELSE "Low"

\* data_completeness = (scores.length / 6) * 100, kept as the fraction num / den
DataCompleteness(scores) == [num |-> Len(scores) * 100, den |-> 6]

calculateConfidenceScores(autoPopulatedData) ==
    LET scores == ConfidenceScoresArray(autoPopulatedData)
        overallConfidence ==
            IF Len(scores) > 0 THEN [num |-> Sum(scores), den |-> Len(scores)]
            ELSE [num |-> 50, den |-> 1]
    IN  [overall_confidence |-> Round2(overallConfidence.num, overallConfidence.den),
         data_completeness |-> DataCompleteness(scores),
         confidence_level |-> ConfidenceLevel(overallConfidence),
         recommendations |->
            IF ~AtLeast(overallConfidence, 70)
            THEN <<"Verify data source connections", "Update missing information",
                   "Schedule data validation review">>
            ELSE <<>>]

----------------------------------------------------------------------------
(* BIAService.generateBIA: the document *)

Sections == {"personnel_information", "business_impact", "technology_dependencies",
             "recovery_requirements", "risk_compliance", "iso_22301_compliance"}

\* autoPopulatedData as POST /generate builds it from the settled promises
AutoPopulatedData(outcomes, predictiveAnalysis) ==
    [registry    |-> ValueOrNull(outcomes["registry"]),
     pagerDuty   |-> ValueOrNull(outcomes["pagerDuty"]),
     hr          |-> ValueOrNull(outcomes["hr"]),
     financial   |-> ValueOrNull(outcomes["financial"]),
     monitoring  |-> ValueOrNull(outcomes["monitoring"]),
     predictions |-> predictiveAnalysis]

\* the biaDocument literal of generateBIA
BuildDocument(biaId, b, a) ==
    [id |-> biaId,
     function_name |-> b.functionName,
     function_type |-> b.functionType,
     status |-> "draft",
     version |-> "1.0",
     personnel_information |-> generatePersonnelSection(a.hr, a.pagerDuty),
     business_impact |-> generateBusinessImpactSection(a.financial, a.predictions),
     technology_dependencies |-> generateTechnologySection(a.registry),
     recovery_requirements |-> generateRecoverySection(a.predictions, a.monitoring),
     risk_compliance |-> generateRiskComplianceSection(a.registry, b.functionType),
     iso_22301_compliance |-> generateISO22301Section(b.functionType, a.predictions),
     regional_overlays |->
        IF "regionalOverlays" \in DOMAIN b
        THEN generateRegionalOverlays(b.regionalOverlays) ELSE <<>>,
     predictive_analysis |-> a.predictions,
     data_sources |-> generateDataSourceSummary(a),
     confidence_assessment |-> calculateConfidenceScores(a)]

----------------------------------------------------------------------------
(* Persistence: tables bia_documents and bia_audit_log *)

\* uuidv4(): the id of the n-th stored document
Uuid(n) == <<"bia-1", "bia-2", "bia-3">>[n]

\* CONSTRAINT unique_function_name_version UNIQUE (function_name, version)
\* a table without the uniqueness constraint
NoConstraint(rows, doc) == FALSE

UniqueViolation(rows, doc) ==
    \E i \in DOMAIN rows :
        rows[i].function_name = doc.function_name /\ rows[i].version = doc.version

\* what the store operation may answer for `doc`
StoreOutcomes(rows, doc) ==
    IF UniqueViolation(rows, doc) THEN {"PersistenceFailure"}
    ELSE {"stored", "PersistenceFailure"}

\* the row a stored document leaves in bia_documents
DocumentRow(doc) ==
    [id |-> doc.id, function_name |-> doc.function_name, version |-> doc.version,
     status |-> doc.status]

\* UPDATE bia_documents SET status = ... WHERE id = ...
SetStatus(rows, id, status) ==
    [i \in DOMAIN rows |->
        IF rows[i].id = id THEN [rows[i] EXCEPT !.status = status] ELSE rows[i]]

\* what the update operation may answer
UpdateOutcomes == {"ok", "PersistenceFailure"}

\* the status column of document `id`, "none" when there is no such row
StatusOf(rows, id) ==
    IF \E i \in DOMAIN rows : rows[i].id = id
    THEN (CHOOSE r \in {rows[i] : i \in DOMAIN rows} : r.id = id).status
    ELSE "none"

----------------------------------------------------------------------------
(* The operations beside the three handlers, at rest *)

\* two generate requests handled side by side
RequestIds == {"r1", "r2"}

\* two generatePredictions calls running side by side
InvocationIds == {"i1", "i2"}

\* the keys of the object getDataSourceHealth returns
HealthSources == {"registry", "pagerduty", "hr", "financial", "monitoring", "fusion"}

\* the milliseconds Date.now() may advance past the first one
MaxNow == 1

\* the temporary files two calls can name
TempFileNames == {<<kind, at>> : kind \in {"input", "output"}, at \in 0..MaxNow}

InitOther ==
    /\ today = 0
    /\ now = 0
    /\ requests = [r \in RequestIds |-> [pc |-> "idle"]]
    /\ invocations = [i \in InvocationIds |-> [pc |-> "idle"]]
    /\ tempFiles = [f \in TempFileNames |-> "absent"]
    /\ healthChecks = [s \in HealthSources |-> NoPromise]
    /\ health = Null

----------------------------------------------------------------------------
(* POST /api/bia/generate *)

\* await Promise.all(promises): rejected as soon as one promise is rejected
PromiseAll(promises) ==
    IF \E s \in DOMAIN promises : promises[s].status = "rejected"
    THEN [state |-> "rejected",
          reason |-> promises[CHOOSE s \in DOMAIN promises :
                                  promises[s].status = "rejected"].reason]
    ELSE IF \E s \in DOMAIN promises : promises[s].status = "pending"
         THEN [state |-> "pending"]
         ELSE [state |-> "fulfilled", value |-> promises]

\* await Promise.allSettled(promises): pending until every promise has
\* settled, then fulfilled with the array of outcomes
\* the promises handed on without an await
NotAwaited(promises) == [state |-> "fulfilled", value |-> promises]

PromiseAllSettled(promises) ==
    IF \E s \in DOMAIN promises : promises[s].status = "pending"
    THEN [state |-> "pending"]
    ELSE [state |-> "fulfilled", value |-> promises]

\* the catch block of the generate handler
GenerateFailure(message) ==
    [status |-> 500, error |-> "Failed to generate BIA", message |-> message]

\* a catch block that logs and lets generateBIA return the document
GenerateBIASwallows(error, doc) == [threw |-> FALSE, value |-> doc]

\* the catch block of generateBIA: console.error, then throw error
GenerateBIACatch(error, doc) == [threw |-> TRUE, error |-> error]

\* generateBIA from the assembled document on: await storeBIA, return the
\* document, or the catch block
GenerateBIAResult(doc, stored) ==
    IF stored = "stored" THEN [threw |-> FALSE, value |-> doc]
    ELSE GenerateBIACatch(stored, doc)

Init ==
    /\ pc = "idle"
    /\ body = Null
    /\ settled = [s \in DataSources |-> NoPromise]
    /\ proc = [state |-> "none"]
    /\ inputFile = FALSE
    /\ outputFile = "absent"
    /\ predictions = Null
    /\ biaDocument = Null
    /\ storeResult = "none"
    /\ response = Null
    /\ bia_documents = <<>>
    /\ bia_audit_log = <<>>
    /\ fusionRecords = {}
    /\ apc = "idle"
    /\ abody = Null
    /\ aresponse = Null
    /\ afusionResult = Null
    /\ fpc = "idle"
    /\ fbody = Null
    /\ fresponse = Null
    /\ InitOther

\* a request arrives: validation, then the five adapter calls are issued
PostGenerate(b) ==
    /\ pc = "idle"
    /\ body' = b
    /\ IF ValidGenerate(b)
       THEN /\ settled' = [s \in DataSources |-> Pending]
            /\ pc' = "allSettled"
            /\ response' = response
       ELSE /\ settled' = settled
            /\ pc' = "responded"
            /\ response' = [status |-> 400]
    /\ UNCHANGED <<otherVars, proc, inputFile, outputFile, predictions, biaDocument, storeResult,
                   bia_documents, bia_audit_log, fusionRecords, apprVars, pushVars>>

\* one adapter promise settles
AdapterSettles(s) ==
    /\ pc = "allSettled"
    /\ settled[s].status = "pending"
    /\ \E o \in AdapterOutcomes(s) : settled' = [settled EXCEPT ![s] = o]
    /\ UNCHANGED <<otherVars, pc, body, proc, inputFile, outputFile, predictions, biaDocument,
                   storeResult, response, bia_documents, bia_audit_log, fusionRecords,
                   apprVars, pushVars>>

\* the handler resumes from await Promise.allSettled and calls
\* generatePredictions, which runs up to its await fs.writeFile
Gathered ==
    /\ pc = "allSettled"
    /\ LET r == PromiseAllSettled(settled)
       IN  /\ r.state # "pending"
           /\ IF r.state = "fulfilled"
              THEN /\ pc' = "writeFile"
                   /\ response' = response
              ELSE /\ pc' = "responded"
                   /\ response' = GenerateFailure(r.reason)
    /\ UNCHANGED <<otherVars, body, settled, proc, inputFile, outputFile, predictions, biaDocument,
                   storeResult, bia_documents, bia_audit_log, fusionRecords, apprVars, pushVars>>

\* generatePredictions leaves through its catch block (or, were the catch to
\* throw, the handler's catch answers)
CatchPredictions(error) ==
    LET r == GeneratePredictionsCatch(body.functionName, error)
    IN  IF r.threw
        THEN /\ pc' = "responded"
             /\ response' = GenerateFailure(r.error)
             /\ predictions' = predictions
        ELSE /\ pc' = "generateBIA"
             /\ response' = response
             /\ predictions' = r.value

\* await fs.writeFile(inputFile, ...), then executeRoosterPython spawns python3
WriteInputFile ==
    /\ pc = "writeFile"
    /\ \E ok \in BOOLEAN :
        IF ok
        THEN /\ inputFile' = TRUE
             /\ proc' = [state |-> "running"]
             /\ pc' = "awaitRooster"
             /\ UNCHANGED <<otherVars, predictions, response>>
        ELSE /\ CatchPredictions("writeFile failed")
             /\ UNCHANGED <<otherVars, inputFile, proc>>
    /\ UNCHANGED <<otherVars, body, settled, outputFile, biaDocument, storeResult, bia_documents,
                   bia_audit_log, fusionRecords, apprVars, pushVars>>

\* python.on('error'): python3 or the engine directory is missing
RoosterSpawnError ==
    /\ pc = "awaitRooster"
    /\ proc.state = "running"
    /\ proc' = [state |-> "error"]
    /\ CatchPredictions("spawn error")
    /\ UNCHANGED <<otherVars, body, settled, inputFile, outputFile, biaDocument, storeResult,
                   bia_documents, bia_audit_log, fusionRecords, apprVars, pushVars>>

\* python.on('close'): the child exits with `code`, having left `out` in the
\* output file
RoosterClosed(code, out, roosterData) ==
    /\ pc = "awaitRooster"
    /\ proc.state = "running"
    /\ proc' = [state |-> "closed", code |-> code, wrote |-> out]
    /\ outputFile' = out
    /\ LET r == RoosterClose(code, out, roosterData)
       IN  IF r.state = "resolved"
           THEN /\ predictions' = r.value
                /\ pc' = "unlinkInput"
                /\ response' = response
           ELSE CatchPredictions(r.reason)
    /\ UNCHANGED <<otherVars, body, settled, inputFile, biaDocument, storeResult, bia_documents,
                   bia_audit_log, fusionRecords, apprVars, pushVars>>

\* the child never exits: no 'close' and no 'error' event will come
RoosterHangs ==
    /\ pc = "awaitRooster"
    /\ proc.state = "running"
    /\ proc' = [state |-> "hung"]
    /\ UNCHANGED <<otherVars, pc, body, settled, inputFile, outputFile, predictions, biaDocument,
                   storeResult, response, bia_documents, bia_audit_log, fusionRecords,
                   apprVars, pushVars>>

\* await fs.unlink(inputFile); a failure goes to the cleanup catch, which
\* warns, and generatePredictions returns
UnlinkInput ==
    /\ pc = "unlinkInput"
    /\ \E ok \in BOOLEAN :
        IF ok THEN inputFile' = FALSE /\ pc' = "unlinkOutput"
        ELSE inputFile' = inputFile /\ pc' = "generateBIA"
    /\ UNCHANGED <<otherVars, body, settled, proc, outputFile, predictions, biaDocument, storeResult,
                   response, bia_documents, bia_audit_log, fusionRecords, apprVars, pushVars>>

\* await fs.unlink(outputFile); generatePredictions returns the predictions
UnlinkOutput ==
    /\ pc = "unlinkOutput"
    /\ \E ok \in BOOLEAN :
        outputFile' = IF ok THEN "absent" ELSE outputFile
    /\ pc' = "generateBIA"
    /\ UNCHANGED <<otherVars, body, settled, proc, inputFile, predictions, biaDocument, storeResult,
                   response, bia_documents, bia_audit_log, fusionRecords, apprVars, pushVars>>

\* BIAService.generateBIA: assemble the document, store it, return it
GenerateBIA ==
    /\ pc = "generateBIA"
    /\ LET doc == BuildDocument(Uuid(Len(bia_documents) + 1), body,
                                AutoPopulatedData(settled, predictions))
       IN  \E stored \in StoreOutcomes(bia_documents, doc) :
             LET r == GenerateBIAResult(doc, stored)
             IN  /\ storeResult' = stored
                 /\ bia_documents' =
                        IF stored = "stored"
                        THEN Append(bia_documents, DocumentRow(doc))
                        ELSE bia_documents
                 /\ IF r.threw
                    THEN /\ pc' = "responded"
                         /\ response' = GenerateFailure(r.error)
                         /\ biaDocument' = biaDocument
                    ELSE /\ pc' = "checkFusion"
                         /\ response' = response
                         /\ biaDocument' = r.value
    /\ UNCHANGED <<otherVars, body, settled, proc, inputFile, outputFile, predictions,
                   bia_audit_log, fusionRecords, apprVars, pushVars>>

\* await checkFusionRecord(functionName), then res.json; a rejection goes to
\* the handler's catch
CheckFusion ==
    /\ pc = "checkFusion"
    /\ \E ok \in BOOLEAN :
        response' =
            IF ok
            THEN [status |-> 200, success |-> TRUE, bia |-> biaDocument,
                  dataSourceStatus |-> [s \in DataSources |-> settled[s].status]]
            ELSE GenerateFailure("Failed to check Fusion")
    /\ pc' = "responded"
    /\ UNCHANGED <<otherVars, body, settled, proc, inputFile, outputFile, predictions, biaDocument,
                   storeResult, bia_documents, bia_audit_log, fusionRecords, apprVars, pushVars>>

\* the answer has been sent; the handler is free for the next request, whose
\* temporary files carry a new Date.now() in their names
GenerateDone ==
    /\ pc = "responded"
    /\ pc' = "idle"
    /\ body' = Null
    /\ settled' = [s \in DataSources |-> NoPromise]
    /\ proc' = [state |-> "none"]
    /\ inputFile' = FALSE
    /\ outputFile' = "absent"
    /\ predictions' = Null
    /\ biaDocument' = Null
    /\ storeResult' = "none"
    /\ response' = Null
    /\ UNCHANGED <<otherVars, bia_documents, bia_audit_log, fusionRecords, apprVars, pushVars>>

----------------------------------------------------------------------------
(* POST /api/bia/approve *)

ApproveBodies == [biaId : {"", "bia-1"}]

\* the catch block of the approve handler
ApproveFailure(message) ==
    [status |-> 500, error |-> "Failed to approve BIA", message |-> message]

\* a request arrives: validation of biaId
PostApprove(b) ==
    /\ apc = "idle"
    /\ abody' = b
    /\ IF b.biaId # ""
       THEN apc' = "pushToFusion" /\ aresponse' = aresponse
       ELSE apc' = "responded" /\ aresponse' = [status |-> 400]
    /\ afusionResult' = afusionResult
    /\ UNCHANGED <<otherVars, genVars, pushVars, bia_documents, bia_audit_log, fusionRecords>>

\* DataIntegrationService.pushToFusion(biaId, comments): the record it returns,
\* or the Error its catch block throws
PushToFusionOutcomes(biaId) ==
    {[threw |-> FALSE, value |-> [record_id |-> biaId, status |-> "active"]],
     [threw |-> TRUE, error |-> "Failed to push to Fusion"]}

\* an approve handler that goes on to the status update whatever the push gave
ApproveIgnoresPush(fusionResult) == [pc |-> "updateBIAStatus", response |-> Null]

\* the approve handler after its await of pushToFusion: a throw goes to the
\* catch block, a record to the status update
ApproveAfterPush(fusionResult) ==
    IF fusionResult.threw
    THEN [pc |-> "responded", response |-> ApproveFailure(fusionResult.error)]
    ELSE [pc |-> "updateBIAStatus", response |-> Null]

\* await DataIntegrationService.pushToFusion(biaId, comments)
PushToFusion ==
    /\ apc = "pushToFusion"
    /\ \E fusionResult \in PushToFusionOutcomes(abody.biaId) :
        /\ afusionResult' = fusionResult
        /\ fusionRecords' =
                IF fusionResult.threw THEN fusionRecords
                ELSE fusionRecords \cup {abody.biaId}
        /\ apc' = ApproveAfterPush(fusionResult).pc
        /\ aresponse' = ApproveAfterPush(fusionResult).response
    /\ UNCHANGED <<otherVars, genVars, pushVars, abody, bia_documents, bia_audit_log>>

\* await BIAService.updateBIAStatus(biaId, 'approved', comments), then res.json
UpdateBIAStatus ==
    /\ apc = "updateBIAStatus"
    /\ \E updated \in UpdateOutcomes :
        IF updated = "ok"
        THEN /\ bia_documents' = SetStatus(bia_documents, abody.biaId, "approved")
             /\ aresponse' = [status |-> 200, success |-> TRUE]
        ELSE /\ bia_documents' = bia_documents
             /\ aresponse' = ApproveFailure(updated)
    /\ apc' = "responded"
    /\ UNCHANGED <<otherVars, genVars, pushVars, abody, afusionResult, bia_audit_log, fusionRecords>>

ApproveDone ==
    /\ apc = "responded"
    /\ apc' = "idle"
    /\ abody' = Null
    /\ aresponse' = Null
    /\ afusionResult' = Null
    /\ UNCHANGED <<otherVars, genVars, pushVars, bia_documents, bia_audit_log, fusionRecords>>

----------------------------------------------------------------------------
(* POST /api/fusion/push *)

FusionPushBodies == [biaId : {"", "bia-1"}, functionName : {"", "PaymentsCore"}]

\* the catch block of the push handler
FusionPushFailure(message) ==
    [status |-> 500, success |-> FALSE, error |-> "Failed to push to Fusion",
     message |-> message]

\* a request arrives: validation of biaId and functionName
PostFusionPush(b) ==
    /\ fpc = "idle"
    /\ fbody' = b
    /\ IF b.biaId # "" /\ b.functionName # ""
       THEN fpc' = "pushToFusion" /\ fresponse' = fresponse
       ELSE fpc' = "responded" /\ fresponse' = [status |-> 400]
    /\ UNCHANGED <<otherVars, genVars, apprVars, bia_documents, bia_audit_log, fusionRecords>>

\* await DataIntegrationService.pushToFusion(biaId, comments), then res.json
FusionPush ==
    /\ fpc = "pushToFusion"
    /\ \E fusionResult \in PushToFusionOutcomes(fbody.biaId) :
        IF fusionResult.threw
        THEN /\ fusionRecords' = fusionRecords
             /\ fresponse' = FusionPushFailure(fusionResult.error)
        ELSE /\ fusionRecords' = fusionRecords \cup {fbody.biaId}
             /\ fresponse' = [status |-> 200, success |-> TRUE, biaId |-> fbody.biaId,
                               fusionResult |-> fusionResult.value]
    /\ fpc' = "responded"
    /\ UNCHANGED <<otherVars, genVars, apprVars, fbody, bia_documents, bia_audit_log>>

FusionPushDone ==
    /\ fpc = "responded"
    /\ fpc' = "idle"
    /\ fbody' = Null
    /\ fresponse' = Null
    /\ UNCHANGED <<otherVars, genVars, apprVars, bia_documents, bia_audit_log, fusionRecords>>

----------------------------------------------------------------------------

\* the steps of one generate request
GenerateStep ==
    \/ \E s \in DataSources : AdapterSettles(s)
    \/ Gathered
    \/ WriteInputFile
    \/ RoosterSpawnError
    \/ \E code \in {0, 1}, out \in {"absent", "malformed", "valid"}, d \in RoosterData :
          RoosterClosed(code, out, d)
    \/ RoosterHangs
    \/ UnlinkInput
    \/ UnlinkOutput
    \/ GenerateBIA
    \/ CheckFusion

Next ==
    \/ \E b \in GenerateBodies : PostGenerate(b)
    \/ GenerateStep
    \/ GenerateDone
    \/ \E b \in ApproveBodies : PostApprove(b)
    \/ PushToFusion
    \/ UpdateBIAStatus
    \/ ApproveDone

Spec == Init /\ [][Next]_vars

----------------------------------------------------------------------------
(* BIAService.generateBIA over a wider range of gathered data *)

\* the confidence scores, in hundredths, an adapter payload may carry
ScoreValues == {0, 40, 69, 70, 100}

\* what an adapter call may have settled to: a payload with any of the scores,
\* a payload without the fields the builders read, or a rejection
GatheredOutcomes(s) ==
    {Fulfilled(Payload(s, c)) : c \in ScoreValues}
        \cup {Fulfilled(SparsePayload(s)), Rejected(AdapterError(s))}

\* the results array of Promise.allSettled, for every combination of outcomes
GatheredSettlements ==
    {[registry |-> r, pagerDuty |-> p, hr |-> h, financial |-> f, monitoring |-> m] :
        r \in GatheredOutcomes("registry"), p \in GatheredOutcomes("pagerDuty"),
        h \in GatheredOutcomes("hr"), f \in GatheredOutcomes("financial"),
        m \in GatheredOutcomes("monitoring")}

\* what generatePredictions may have returned: the engine's output with its
\* overall_confidence missing or given, or the fallback object
GatheredPredictions(functionName) ==
    {formatRoosterOutput([overall_confidence |-> c]) : c \in {Undefined, 70}}
        \cup {getFallbackPredictions(functionName)}

\* the generate handler at its call of BIAService.generateBIA, with every
\* combination of gathered data
InitGathered ==
    /\ pc = "generateBIA"
    /\ body = [functionName |-> "PaymentsCore", functionType |-> "product"]
    /\ settled \in GatheredSettlements
    /\ proc = [state |-> "none"]
    /\ inputFile = FALSE
    /\ outputFile = "absent"
    /\ predictions \in GatheredPredictions(body.functionName)
    /\ biaDocument = Null
    /\ storeResult = "none"
    /\ response = Null
    /\ bia_documents = <<>>
    /\ bia_audit_log = <<>>
    /\ fusionRecords = {}
    /\ apc = "idle"
    /\ abody = Null
    /\ aresponse = Null
    /\ afusionResult = Null
    /\ fpc = "idle"
    /\ fbody = Null
    /\ fresponse = Null
    /\ InitOther

NextGathered ==
    \/ GenerateBIA
    \/ CheckFusion
    \/ GenerateDone

SpecGathered == InitGathered /\ [][NextGathered]_vars

----------------------------------------------------------------------------
(* BIAService.generateBIA over the rule tables, while the calendar advances *)

\* the months the calendar may advance past the first one
MaxToday == 11

\* function_type strings: the five types, two that are no property of any
\* object, and two property names of Object.prototype
RuleFunctionTypes == FunctionTypes \cup {"gadget", ""} \cup ObjectPrototypeKeys

\* region codes: the three regions, one that is no property of any object,
\* and a property name of Object.prototype
RuleRegions == {"na", "eu", "apac", "mars", "constructor"}

\* the requests generateBIA is called with: every function_type, without
\* regional overlays or with one overlay of any region
RuleRequests ==
    [functionName : {"PaymentsCore"}, functionType : RuleFunctionTypes]
        \cup [functionName : {"PaymentsCore"}, functionType : RuleFunctionTypes,
              regionalOverlays : {<<[region |-> g]>> : g \in RuleRegions}]

\* the results the adapters may have settled to: all rejected or all delivering
RuleSettlements ==
    {[s \in DataSources |-> Rejected(AdapterError(s))],
     [s \in DataSources |-> Fulfilled(Payload(s, 70))]}

\* generateBIA about to be called with every request of RuleRequests
InitRules ==
    /\ pc = "generateBIA"
    /\ body \in RuleRequests
    /\ settled \in RuleSettlements
    /\ proc = [state |-> "none"]
    /\ inputFile = FALSE
    /\ outputFile = "absent"
    /\ predictions \in GatheredPredictions(body.functionName)
    /\ biaDocument = Null
    /\ storeResult = "none"
    /\ response = Null
    /\ bia_documents = <<>>
    /\ bia_audit_log = <<>>
    /\ fusionRecords = {}
    /\ apc = "idle"
    /\ abody = Null
    /\ aresponse = Null
    /\ afusionResult = Null
    /\ fpc = "idle"
    /\ fbody = Null
    /\ fresponse = Null
    /\ InitOther

\* a month passes
Tick ==
    /\ today < MaxToday
    /\ today' = today + 1
    /\ UNCHANGED <<genVars, apprVars, pushVars, bia_documents, bia_audit_log, fusionRecords,
                   now, requests, invocations, tempFiles, healthChecks, health>>

NextRules ==
    \/ GenerateBIA
    \/ CheckFusion
    \/ GenerateDone
    \/ Tick

SpecRules == InitRules /\ [][NextRules]_vars

----------------------------------------------------------------------------
(* POST /api/bia/generate: two requests handled side by side *)

\* the bodies of the concurrent requests: two function names, and a malformed one
ConcurrentBodies ==
    [functionName : {"", "PaymentsCore", "Ledger"}, functionType : {"product"}]

\* what a request may have gathered by the time it calls generateBIA: every
\* adapter rejected or every adapter delivering, with the fallback predictions
ConcurrentGathers(functionName) ==
    {AutoPopulatedData([s \in DataSources |-> Rejected(AdapterError(s))],
                       getFallbackPredictions(functionName)),
     AutoPopulatedData([s \in DataSources |-> Fulfilled(Payload(s, 70))],
                       getFallbackPredictions(functionName))}

\* request r arrives: validation
ConcurrentPost(r, b) ==
    /\ requests[r].pc = "idle"
    /\ requests' =
            [requests EXCEPT ![r] =
                IF ValidGenerate(b) THEN [pc |-> "allSettled", body |-> b]
                ELSE [pc |-> "responded", body |-> b, response |-> [status |-> 400]]]
    /\ UNCHANGED <<genVars, apprVars, pushVars, bia_documents, bia_audit_log, fusionRecords,
                   today, now, invocations, tempFiles, healthChecks, health>>

\* the adapters of request r have settled and its predictions are in hand
ConcurrentGathered(r) ==
    /\ requests[r].pc = "allSettled"
    /\ \E a \in ConcurrentGathers(requests[r].body.functionName) :
        requests' =
            [requests EXCEPT ![r] =
                [pc |-> "generateBIA", body |-> requests[r].body, gathered |-> a]]
    /\ UNCHANGED <<genVars, apprVars, pushVars, bia_documents, bia_audit_log, fusionRecords,
                   today, now, invocations, tempFiles, healthChecks, health>>

\* await BIAService.generateBIA(...) of request r: the document is built and
\* handed to the store; a throw goes to the handler's catch
ConcurrentGenerateBIA(r) ==
    /\ requests[r].pc = "generateBIA"
    /\ LET doc == BuildDocument(Uuid(Len(bia_documents) + 1), requests[r].body,
                                requests[r].gathered)
       IN  \E stored \in StoreOutcomes(bia_documents, doc) :
             LET res == GenerateBIAResult(doc, stored)
             IN  /\ bia_documents' =
                        IF stored = "stored"
                        THEN Append(bia_documents, DocumentRow(doc))
                        ELSE bia_documents
                 /\ requests' =
                        [requests EXCEPT ![r] =
                            IF res.threw
                            THEN [pc |-> "responded", body |-> requests[r].body,
                                  response |-> GenerateFailure(res.error)]
                            ELSE [pc |-> "checkFusion", body |-> requests[r].body,
                                  biaDocument |-> res.value]]
    /\ UNCHANGED <<genVars, apprVars, pushVars, bia_audit_log, fusionRecords,
                   today, now, invocations, tempFiles, healthChecks, health>>

\* await checkFusionRecord(functionName) of request r, then res.json
ConcurrentCheckFusion(r) ==
    /\ requests[r].pc = "checkFusion"
    /\ \E ok \in BOOLEAN :
        requests' =
            [requests EXCEPT ![r] =
                [pc |-> "responded", body |-> requests[r].body,
                 response |->
                    IF ok
                    THEN [status |-> 200, success |-> TRUE,
                          bia |-> requests[r].biaDocument]
                    ELSE GenerateFailure("Failed to check Fusion")]]
    /\ UNCHANGED <<genVars, apprVars, pushVars, bia_documents, bia_audit_log, fusionRecords,
                   today, now, invocations, tempFiles, healthChecks, health>>

ConcurrentDone(r) ==
    /\ requests[r].pc = "responded"
    /\ requests' = [requests EXCEPT ![r] = [pc |-> "idle"]]
    /\ UNCHANGED <<genVars, apprVars, pushVars, bia_documents, bia_audit_log, fusionRecords,
                   today, now, invocations, tempFiles, healthChecks, health>>

NextConcurrent ==
    \/ \E r \in RequestIds, b \in ConcurrentBodies : ConcurrentPost(r, b)
    \/ \E r \in RequestIds : ConcurrentGathered(r)
    \/ \E r \in RequestIds : ConcurrentGenerateBIA(r)
    \/ \E r \in RequestIds : ConcurrentCheckFusion(r)
    \/ \E r \in RequestIds : ConcurrentDone(r)

SpecConcurrent == Init /\ [][NextConcurrent]_vars

----------------------------------------------------------------------------
(* Approval and push over the documents the database may hold *)

\* CHECK (status IN (...)) of table bia_documents
Statuses == {"draft", "pending_approval", "approved", "rejected", "archived"}

\* the table at server start: empty, or holding one document in any status
StoredDocuments ==
    {<<>>} \cup
    {<<[id |-> "bia-1", function_name |-> "PaymentsCore", version |-> "1.0",
        status |-> st]>> : st \in Statuses}

\* the server started over an existing database, no request in flight
InitStored ==
    /\ pc = "idle"
    /\ body = Null
    /\ settled = [s \in DataSources |-> NoPromise]
    /\ proc = [state |-> "none"]
    /\ inputFile = FALSE
    /\ outputFile = "absent"
    /\ predictions = Null
    /\ biaDocument = Null
    /\ storeResult = "none"
    /\ response = Null
    /\ bia_documents \in StoredDocuments
    /\ bia_audit_log = <<>>
    /\ fusionRecords = {}
    /\ apc = "idle"
    /\ abody = Null
    /\ aresponse = Null
    /\ afusionResult = Null
    /\ fpc = "idle"
    /\ fbody = Null
    /\ fresponse = Null
    /\ InitOther

NextStored ==
    \/ \E b \in ApproveBodies : PostApprove(b)
    \/ PushToFusion
    \/ UpdateBIAStatus
    \/ ApproveDone
    \/ \E b \in FusionPushBodies : PostFusionPush(b)
    \/ FusionPush
    \/ FusionPushDone

SpecStored == InitStored /\ [][NextStored]_vars

----------------------------------------------------------------------------
(* RoosterService.generatePredictions: two calls running side by side *)

\* the state no step of generatePredictions touches
beyondPredictions ==
    <<genVars, apprVars, pushVars, bia_documents, bia_audit_log, fusionRecords,
      today, requests, healthChecks, health>>

\* a call past its first line and not yet returned
InFlight(i) == invocations[i].pc \notin {"idle", "returned"}

\* return predictions / return this.getFallbackPredictions(functionName)
Returned(inv, result) == [inv EXCEPT !.pc = "returned", !.predictions = result]

\* the call names its two files after the clock, which may move on by a
\* millisecond between the two readings
NameTempFiles(i) ==
    /\ invocations[i].pc = "idle"
    /\ \E later \in now..Min(now + 1, MaxNow) :
        /\ invocations' = [invocations EXCEPT ![i] =
                [pc |-> "writeFile", inputFile |-> <<"input", now>>,
                 outputFile |-> <<"output", later>>, code |-> Undefined,
                 predictions |-> Null]]
        /\ now' = later
    /\ UNCHANGED <<beyondPredictions, tempFiles>>

\* await fs.writeFile(inputFile, ...): the file holds this call's input,
\* or the write fails and the call returns the fallback
WriteTempInput(i) ==
    /\ invocations[i].pc = "writeFile"
    /\ \/ /\ tempFiles' = [tempFiles EXCEPT ![invocations[i].inputFile] = i]
          /\ invocations' = [invocations EXCEPT ![i].pc = "execute"]
       \/ /\ invocations' = [invocations EXCEPT ![i] = Returned(@, "fallback")]
          /\ UNCHANGED tempFiles
    /\ UNCHANGED <<beyondPredictions, now>>

\* the engine process reads --input and writes its predictions for that
\* input to --output, or exits with a non-zero code
EngineRuns(i) ==
    /\ invocations[i].pc = "execute"
    /\ \/ /\ tempFiles[invocations[i].inputFile] # "absent"
          /\ tempFiles' = [tempFiles EXCEPT ![invocations[i].outputFile] =
                                tempFiles[invocations[i].inputFile]]
          /\ invocations' = [invocations EXCEPT ![i].pc = "close", ![i].code = 0]
       \/ /\ invocations' = [invocations EXCEPT ![i].pc = "close", ![i].code = 1]
          /\ UNCHANGED tempFiles
    /\ UNCHANGED <<beyondPredictions, now>>

\* python.on('close'): with code 0 the output file is read and parsed, a
\* missing file or another code rejects and the call returns the fallback
EngineClosed(i) ==
    /\ invocations[i].pc = "close"
    /\ invocations' = [invocations EXCEPT ![i] =
            IF @.code = 0 /\ tempFiles[@.outputFile] # "absent"
            THEN [@ EXCEPT !.pc = "unlinkInput",
                           !.predictions = tempFiles[invocations[i].outputFile]]
            ELSE Returned(@, "fallback")]
    /\ UNCHANGED <<beyondPredictions, now, tempFiles>>

\* await fs.unlink(inputFile): a missing file throws into the cleanup
\* catch, which skips the second unlink
UnlinkTempInput(i) ==
    /\ invocations[i].pc = "unlinkInput"
    /\ IF tempFiles[invocations[i].inputFile] = "absent"
       THEN /\ invocations' = [invocations EXCEPT ![i].pc = "returned"]
            /\ UNCHANGED tempFiles
       ELSE /\ tempFiles' = [tempFiles EXCEPT ![invocations[i].inputFile] = "absent"]
            /\ invocations' = [invocations EXCEPT ![i].pc = "unlinkOutput"]
    /\ UNCHANGED <<beyondPredictions, now>>

\* await fs.unlink(outputFile); return predictions
UnlinkTempOutput(i) ==
    /\ invocations[i].pc = "unlinkOutput"
    /\ tempFiles' = [tempFiles EXCEPT ![invocations[i].outputFile] = "absent"]
    /\ invocations' = [invocations EXCEPT ![i].pc = "returned"]
    /\ UNCHANGED <<beyondPredictions, now>>

\* a millisecond passes
ClockTick ==
    /\ now < MaxNow
    /\ now' = now + 1
    /\ UNCHANGED <<beyondPredictions, invocations, tempFiles>>

NextOverlap ==
    \/ \E i \in InvocationIds : NameTempFiles(i)
    \/ \E i \in InvocationIds : WriteTempInput(i)
    \/ \E i \in InvocationIds : EngineRuns(i)
    \/ \E i \in InvocationIds : EngineClosed(i)
    \/ \E i \in InvocationIds : UnlinkTempInput(i)
    \/ \E i \in InvocationIds : UnlinkTempOutput(i)
    \/ ClockTick

SpecOverlap == Init /\ [][NextOverlap]_vars

----------------------------------------------------------------------------
(* DataIntegrationService.getDataSourceHealth *)

\* the state no step of getDataSourceHealth touches
beyondHealth ==
    <<genVars, apprVars, pushVars, bia_documents, bia_audit_log, fusionRecords,
      today, now, requests, invocations, tempFiles>>

\* what a health check resolves to
CheckValues == {[status |-> "healthy"], [status |-> "unhealthy"]}

\* the threshold of an overall 'healthy' moved to all six checks
AllFulfilled(checks) == \A s \in HealthSources : checks[s].status = "fulfilled"

\* healthChecks.filter(check => check.status === 'fulfilled').length >= 4
EnoughFulfilled(checks) ==
    Cardinality({s \in HealthSources : checks[s].status = "fulfilled"}) >= 4

\* the object getDataSourceHealth returns once the six checks have settled
DataSourceHealth(checks) ==
    [sources |-> [s \in HealthSources |->
                    IF checks[s].status = "fulfilled" THEN checks[s].value
                    ELSE [status |-> "error"]],
     overall |-> IF EnoughFulfilled(checks) THEN "healthy" ELSE "degraded"]

\* getDataSourceHealth is called: the six checks are started
StartHealthChecks ==
    /\ \A s \in HealthSources : healthChecks[s] = NoPromise
    /\ healthChecks' = [s \in HealthSources |-> Pending]
    /\ health' = Null
    /\ UNCHANGED beyondHealth

\* one check fulfils or rejects
HealthCheckSettles(s) ==
    /\ healthChecks[s] = Pending
    /\ \E outcome \in {Fulfilled(v) : v \in CheckValues}
                        \cup {Rejected("check failed")} :
        healthChecks' = [healthChecks EXCEPT ![s] = outcome]
    /\ UNCHANGED <<beyondHealth, health>>

\* await Promise.allSettled(...) resumes and the object is returned
ReturnHealth ==
    /\ \A s \in HealthSources : healthChecks[s].status \in {"fulfilled", "rejected"}
    /\ health = Null
    /\ health' = DataSourceHealth(healthChecks)
    /\ UNCHANGED <<beyondHealth, healthChecks>>

NextHealth ==
    \/ StartHealthChecks
    \/ \E s \in HealthSources : HealthCheckSettles(s)
    \/ ReturnHealth

SpecHealth == Init /\ [][NextHealth]_vars

----------------------------------------------------------------------------
(* Properties *)

\* the generate request in flight passed validation
ValidRequest == body # Null /\ ValidGenerate(body)

\* the generate request in flight has been answered with HTTP status `code`
Answered(code) == pc = "responded" /\ response.status = code

\* the predictive engine did not deliver: python3 missing, a non-zero exit
\* code, or an output file that is unreadable or malformed
RoosterUnavailable ==
    \/ proc.state = "error"
    \/ proc.state = "closed" /\ (proc.code # 0 \/ proc.wrote # "valid")

\* generatePredictions has returned to the generate handler
PredictionsReturned == ValidRequest /\ pc \in {"generateBIA", "checkFusion", "responded"}

AllAdaptersRejected == \A s \in DataSources : settled[s].status = "rejected"

\* the sources that delivered data to the request: the fulfilled adapters, and
\* the predictive engine unless its fallback was substituted
Succeeded ==
    {s \in DataSources : settled[s].status = "fulfilled"}
    \cup (IF predictions # Null /\ predictions.rooster_version # "fallback"
          THEN {"predictive"} ELSE {})

\* C1: with all five adapters rejected and the predictive engine unavailable,
\* the answered document has all six sections, confidence_level "Low" and
\* data_completeness 0.
C1_TotalDegradation ==
    (Answered(200) /\ AllAdaptersRejected /\ predictions.rooster_version = "fallback")
    => /\ Sections \subseteq DOMAIN response.bia
       /\ response.bia.confidence_assessment.confidence_level = "Low"
       /\ response.bia.confidence_assessment.data_completeness.num = 0

\* the six sources succeeded with the scores 0.9, 0.8, 0.6, 0.75, 0.9, 0.82
FullSuccessScores ==
    /\ \A s \in DataSources : settled[s].status = "fulfilled"
    /\ settled["registry"].value.confidence_score = 90
    /\ settled["pagerDuty"].value.confidence_score = 80
    /\ settled["hr"].value.confidence_score = 60
    /\ settled["financial"].value.confidence_score = 75
    /\ settled["monitoring"].value.confidence_score = 90
    /\ predictions.confidence_overall = 82

\* C2: with the scores 0.9, 0.8, 0.6, 0.75, 0.9, 0.82 the assessment is
\* overall_confidence 0.80, confidence_level "High", data_completeness 100.
C2_FullSuccess ==
    (Answered(200) /\ FullSuccessScores)
    => LET a == response.bia.confidence_assessment
       IN  /\ a.overall_confidence = 80
           /\ a.confidence_level = "High"
           /\ a.data_completeness.num = 100 * a.data_completeness.den

\* C3: data_completeness is |S| / 6 x 100 for the set S of sources that
\* succeeded, a payload confidence of 0 included and a predictive engine that
\* is down not counted.
C3_Completeness ==
    Answered(200)
    => LET dc == response.bia.confidence_assessment.data_completeness
       IN  dc.num * 6 = Cardinality(Succeeded) * 100 * dc.den

\* C4: rejections neither stop the other adapters from settling nor fail the
\* request: past the join every adapter has settled, the predictions are in
\* hand before the sections are built, and no failure answer carries an
\* adapter's error.
C4_SettleAll ==
    /\ (ValidRequest /\ pc \notin {"idle", "allSettled"})
       => \A s \in DataSources : settled[s].status \in {"fulfilled", "rejected"}
    /\ (pc \in {"generateBIA", "checkFusion"} \/ biaDocument # Null)
       => predictions # Null
    /\ Answered(500)
       => \A s \in DataSources : response.message # AdapterError(s)

\* a request reaches section building with one adapter rejected and another
\* fulfilled
C4_Witness ==
    /\ pc = "generateBIA"
    /\ settled["registry"].status = "rejected"
    /\ settled["hr"].status = "fulfilled"

\* C5: an approve request on a draft document fails and leaves the
\* document's status and the audit log as they were.
C5_DraftNotApproved ==
    [][(/\ apc = "updateBIAStatus"
        /\ apc' = "responded"
        /\ StatusOf(bia_documents, abody.biaId) = "draft")
       => /\ aresponse'.status # 200
          /\ bia_documents' = bia_documents
          /\ bia_audit_log' = bia_audit_log]_vars

\* C6: once generatePredictions has returned, neither temporary file exists.
C6_TempFilesRemoved ==
    PredictionsReturned => ~inputFile /\ outputFile = "absent"

\* C7: when the engine is unavailable generatePredictions returns the
\* fallback (confidence_overall 0.6, a note), the request goes on, is not
\* answered with the engine's error, and an answered document carries the
\* fallback and all six sections.
C7_FallbackPredictions ==
    RoosterUnavailable
    => /\ pc \in {"generateBIA", "checkFusion", "responded"}
       /\ predictions # Null
       /\ predictions.confidence_overall = 60
       /\ "note" \in DOMAIN predictions
       /\ Answered(500) => response.message \in {"PersistenceFailure", "Failed to check Fusion"}
       /\ Answered(200) => /\ response.bia.predictive_analysis = predictions
                           /\ Sections \subseteq DOMAIN response.bia

\* a document is answered although the engine exited with a non-zero code
C7_Witness ==
    Answered(200) /\ proc.state = "closed" /\ proc.code # 0

\* C8: a generate request in flight can always take a further step towards
\* its answer, also when the child process never exits.
C8_GenerateNeverStuck ==
    pc \notin {"idle", "responded"} => ENABLED GenerateStep

\* C9: when the store operation fails, the request is answered with the
\* document-generation failure carrying that error, and with no document.
C9_StoreFailurePropagates ==
    storeResult = "PersistenceFailure"
    => /\ pc = "responded"
       /\ response.status = 500
       /\ response.error = "Failed to generate BIA"
       /\ response.message = "PersistenceFailure"
       /\ "bia" \notin DOMAIN response
       /\ biaDocument = Null

\* the store failed on a first document, with no uniqueness clash
C9_Witness ==
    storeResult = "PersistenceFailure" /\ pc = "responded" /\ bia_documents = <<>>

\* C10: a valid request whose document was stored is answered with the
\* complete document.
C10_StoredMeansAnswered ==
    (pc = "responded" /\ ValidRequest /\ storeResult = "stored")
    => /\ response.status = 200
       /\ "bia" \in DOMAIN response
       /\ Sections \subseteq DOMAIN response.bia

----------------------------------------------------------------------------
(* Properties of the assembled document *)

\* generateBIA has returned a document to the generate handler
Assembled == biaDocument # Null

\* the confidence score the adapter of source s delivered, Undefined when the
\* call was rejected or its payload carries none
DeliveredScore(s) ==
    IF settled[s].status = "fulfilled"
    THEN Num(settled[s].value, "confidence_score")
    ELSE Undefined

\* C11: whatever sources succeeded or failed and whatever scores in [0, 1]
\* the payloads carry, every section's confidence_score and the
\* overall_confidence are whole numbers of hundredths between 0 and 100, that
\* is, values in [0, 1] and, for overall_confidence, a multiple of 0.01
C11_ConfidenceInUnitInterval ==
    Assembled =>
        /\ \A sec \in Sections : biaDocument[sec].confidence_score \in 0..100
        /\ biaDocument.confidence_assessment.overall_confidence \in 0..100

\* a document assembled from a rejected source, a source scoring 0 and a
\* source scoring 1
C11_Witness ==
    /\ Assembled
    /\ \E s \in DataSources : settled[s].status = "rejected"
    /\ \E s \in DataSources : DeliveredScore(s) = 0
    /\ \E s \in DataSources : DeliveredScore(s) = 100

\* C12: the confidence_level is the band of the reported overall_confidence:
\* "High" exactly when it is at least 0.8, "Medium" exactly when it is at
\* least 0.6 and below 0.8, "Low" otherwise
C12_LevelOfReported ==
    Assembled =>
        LET a == biaDocument.confidence_assessment
        IN  /\ a.confidence_level = "High" <=> a.overall_confidence >= 80
            /\ a.confidence_level = "Medium" <=>
                    (a.overall_confidence >= 60 /\ a.overall_confidence < 80)
            /\ a.confidence_level = "Low" <=> a.overall_confidence < 60

\* C13: the recommendations are non-empty only when the reported
\* overall_confidence is below 0.7, and a non-empty list is exactly the three
\* fixed strings
C13_RecommendationsBelowReported ==
    Assembled =>
        LET a == biaDocument.confidence_assessment
        IN  a.recommendations # <<>> =>
                /\ a.overall_confidence < 70
                /\ a.recommendations =
                        <<"Verify data source connections", "Update missing information",
                          "Schedule data validation review">>

\* the six sources whose scores calculateConfidenceScores reads
ScoredSources == DataSources \cup {"predictive"}

\* the score of a source as calculateConfidenceScores reads it
SourceScore(s) ==
    IF s = "predictive" THEN Num(predictions, "confidence_overall") ELSE DeliveredScore(s)

RECURSIVE TotalScore(_)
TotalScore(S) ==
    IF S = {} THEN 0
    ELSE LET s == CHOOSE x \in S : TRUE IN SourceScore(s) + TotalScore(S \ {s})

\* x is num / den rounded to the nearest whole number, halves rounded up
IsRounded(x, num, den) == 2 * den * x - den <= 2 * num /\ 2 * num < 2 * den * x + den

\* the sources each section draws its data from
SectionSources(sec) ==
    CASE sec = "personnel_information"   -> {"hr", "pagerDuty"}
      [] sec = "business_impact"         -> {"financial", "predictive"}
      [] sec = "technology_dependencies" -> {"registry"}
      [] sec = "recovery_requirements"   -> {"predictive", "monitoring"}
      [] OTHER                           -> {}

\* the sections built from static rules only
RuleDerived == {"risk_compliance", "iso_22301_compliance"}

\* the sections with at least one successful contributing source
Contributing == {sec \in Sections : SectionSources(sec) \cap Succeeded # {}}

RECURSIVE TotalSectionScore(_)
TotalSectionScore(S) ==
    IF S = {} THEN 0
    ELSE LET sec == CHOOSE x \in S : TRUE
         IN  biaDocument[sec].confidence_score + TotalSectionScore(S \ {sec})

\* overall_confidence is the rounded mean of the section scores of S
MeanOfSections(S) ==
    S # {} /\ IsRounded(biaDocument.confidence_assessment.overall_confidence,
                        TotalSectionScore(S), Cardinality(S))

MultiSource == {sec \in Sections : Cardinality(SectionSources(sec)) > 1}

\* the sources of S that succeeded and delivered a confidence score
Scored(S) == {s \in S \cap Succeeded : SourceScore(s) # Undefined}

\* the least of the scores the sources of S delivered
MinScore(S) ==
    CHOOSE m \in {SourceScore(s) : s \in S} : \A s \in S : m <= SourceScore(s)

\* C15: for the personnel, business impact and recovery sections, when all
\* sources of the section succeeded its confidence_score is the minimum of
\* their confidence scores, a score of 0 included
C15_MinOfSources ==
    Assembled =>
        \A sec \in MultiSource :
            Scored(SectionSources(sec)) = SectionSources(sec)
                => biaDocument[sec].confidence_score = MinScore(SectionSources(sec))

\* C16: when exactly one source of a section succeeded, the section's
\* confidence_score is that source's confidence score
C16_OnlySourceScore ==
    Assembled =>
        \A sec \in MultiSource :
            (Cardinality(SectionSources(sec) \cap Succeeded) = 1
                /\ Scored(SectionSources(sec)) # {})
                => biaDocument[sec].confidence_score = MinScore(Scored(SectionSources(sec)))

\* the fields of each section that hold a string, a list or an object
StringFields(sec) ==
    CASE sec = "personnel_information" ->
            {"team_size", "key_personnel", "manager_chain", "escalation_policy",
             "on_call_schedule", "business_hours"}
      [] sec = "business_impact" ->
            {"daily_revenue_impact", "monthly_revenue_impact", "active_customers",
             "transaction_volume", "customer_segments"}
      [] sec = "technology_dependencies" ->
            {"core_technologies", "service_dependencies", "reliability_tier",
             "deployment_info"}
      [] sec = "recovery_requirements" ->
            {"current_availability", "sla_target", "mttr", "scenarios"}
      [] sec = "risk_compliance" ->
            {"compliance_requirements", "data_classification", "regulatory_impact"}
      [] sec = "iso_22301_compliance" ->
            {"business_function_classification", "mtpd", "mbco", "resource_requirements"}

\* the string fields one level down, as <<object, field>>
NestedStringFields(sec) ==
    CASE sec = "business_impact" ->
            {"predictive_impact"}
                \X {"twelve_month_forecast", "risk_level", "improvement_potential"}
      [] sec = "technology_dependencies" ->
            {"documentation"} \X {"runbook_url", "documentation_url", "slack_channel"}
      [] sec = "recovery_requirements" -> {"rto", "rpo"} \X {"current", "target"}
      [] sec = "iso_22301_compliance" ->
            {<<"risk_assessment", "overall_risk">>}
                \cup ({"testing_requirements"} \X {"frequency", "scope", "success_criteria"})
      [] OTHER -> {}

\* the numeric fields one level down
NestedNumberFields(sec) ==
    IF sec = "recovery_requirements" THEN {"rto", "rpo"} \X {"confidence"} ELSE {}

\* section sec of the document has every field, and none is undefined
FullyPopulated(doc, sec) ==
    /\ sec \in DOMAIN doc
    /\ DOMAIN doc[sec] =
            StringFields(sec) \cup {p[1] : p \in NestedStringFields(sec)}
                \cup {"confidence_score", "auto_populated"}
    /\ \A f \in StringFields(sec) : doc[sec][f] # ""
    /\ \A p \in NestedStringFields(sec) :
            p[2] \in DOMAIN doc[sec][p[1]] /\ doc[sec][p[1]][p[2]] # ""
    /\ \A p \in NestedNumberFields(sec) :
            p[2] \in DOMAIN doc[sec][p[1]] /\ doc[sec][p[1]][p[2]] # Undefined
    /\ doc[sec].confidence_score # Undefined
    /\ doc[sec].auto_populated \in BOOLEAN

\* C17: whatever sources failed and whatever fields a delivered payload
\* lacks, each of the six sections is in the document and none of its fields
\* is null or undefined: a placeholder or default stands in
C17_NoFieldUndefined ==
    Assembled => \A sec \in Sections : FullyPopulated(biaDocument, sec)

\* a document assembled while one source was rejected and another delivered
\* a payload without the fields the builders read
C17_Witness ==
    /\ Assembled
    /\ \E s \in DataSources : settled[s].status = "rejected"
    /\ \E s \in DataSources :
            settled[s].status = "fulfilled" /\ settled[s].value = SparsePayload(s)

----------------------------------------------------------------------------
(* Properties of approval and push *)

\* this step is the approve handler's pushToFusion returning a record for id
ApprovePushes(id) ==
    /\ apc = "pushToFusion"
    /\ abody.biaId = id
    /\ afusionResult' # Null
    /\ ~afusionResult'.threw

\* this step is the approve handler's pushToFusion throwing
ApprovePushFails ==
    /\ apc = "pushToFusion"
    /\ afusionResult' # Null
    /\ afusionResult'.threw

\* this step is the push endpoint's pushToFusion returning a record for id
EndpointPushes(id) ==
    /\ fpc = "pushToFusion"
    /\ fbody.biaId = id
    /\ fresponse' # Null
    /\ fresponse'.status = 200

\* this step is the push endpoint answering that the push failed
EndpointPushFails ==
    /\ fpc = "pushToFusion"
    /\ fresponse' = FusionPushFailure("Failed to push to Fusion")

\* C18: an archived document is never pushed to the external record store,
\* by approve or by the push endpoint, and its status never changes again
C18_ArchivedIsTerminal ==
    [][\A i \in DOMAIN bia_documents :
            bia_documents[i].status = "archived"
                => /\ bia_documents'[i].status = "archived"
                   /\ ~ApprovePushes(bia_documents[i].id)
                   /\ ~EndpointPushes(bia_documents[i].id)]_vars

\* C19: when pushToFusion fails, in approve or in the push endpoint, the
\* request is answered with the failure, and neither that step nor any later
\* step of the request changes the stored documents or the external records:
\* the status is not set to approved and nothing is linked
C19_PushFailureLeavesState ==
    [][/\ ApprovePushFails
            => /\ apc' = "responded"
               /\ aresponse' = ApproveFailure("Failed to push to Fusion")
               /\ bia_documents' = bia_documents
               /\ fusionRecords' = fusionRecords
       /\ (afusionResult # Null /\ afusionResult.threw /\ apprVars' # apprVars)
            => /\ bia_documents' = bia_documents
               /\ fusionRecords' = fusionRecords
       /\ EndpointPushFails
            => /\ bia_documents' = bia_documents
               /\ fusionRecords' = fusionRecords
       /\ pushVars' # pushVars => bia_documents' = bia_documents]_vars

\* an approve request for a draft document was answered with the push
\* failure, and a push request was answered with it too
C19_Witness ==
    /\ apc = "responded"
    /\ afusionResult # Null
    /\ afusionResult.threw
    /\ aresponse = ApproveFailure("Failed to push to Fusion")
    /\ StatusOf(bia_documents, abody.biaId) = "draft"
    /\ fpc = "responded"
    /\ fresponse = FusionPushFailure("Failed to push to Fusion")

\* C20: the approve handler pushes a document to the external record store
\* only once its status has been written as approved
C20_PushAfterApproved ==
    [][\A i \in DOMAIN bia_documents :
            ApprovePushes(bia_documents[i].id) => bia_documents[i].status = "approved"]_vars

\* C21: every status transition of a document appends exactly one entry to
\* the audit log, and no step modifies or removes the entries already there
C21_TransitionAudited ==
    [][/\ Len(bia_audit_log') >= Len(bia_audit_log)
       /\ SubSeq(bia_audit_log', 1, Len(bia_audit_log)) = bia_audit_log
       /\ \A i \in DOMAIN bia_documents :
            bia_documents'[i].status # bia_documents[i].status
                => Len(bia_audit_log') = Len(bia_audit_log) + 1]_vars

----------------------------------------------------------------------------
(* Properties of concurrent generation *)

\* request r has been told that its document was generated
ToldGenerated(r) ==
    requests[r].pc = "responded" /\ requests[r].response.status = 200

----------------------------------------------------------------------------
(* Properties of the order of calls in one generate request *)

\* this step is the handler's call of RoosterService.generatePredictions
PredictionsLaunched == pc = "allSettled" /\ pc' = "writeFile"

Malformed ==
    body # Null /\ (body.functionName = "" \/ body.functionType \notin FunctionTypes)

\* C24: a malformed generate request is answered with a validation failure
\* and no adapter call, no predictive engine run and no store operation is
\* ever made for it
C24_ValidatedFirst ==
    Malformed
        => /\ pc = "responded"
           /\ response = [status |-> 400]
           /\ \A s \in DataSources : settled[s] = NoPromise
           /\ proc = [state |-> "none"]
           /\ inputFile = FALSE
           /\ predictions = Null
           /\ storeResult = "none"
           /\ biaDocument = Null

\* a request with a functionType outside the five types has been answered,
\* and one with an empty functionName
C24_Witness ==
    /\ Malformed
    /\ pc = "responded"
    /\ body.functionType = "gadget" \/ body.functionName = ""

----------------------------------------------------------------------------
(* Properties of the rule-derived sections *)

\* the values that stand for data not determined
Placeholders == {"TBD", "Unknown", "To Be Determined"}

\* C25: for each of the five function types, whatever the sources gave, the
\* risk/compliance and ISO 22301 sections hold no placeholder: compliance
\* requirements, classification, MTPD, MBCO and resource requirements are
\* the values of that type's own table row
C25_RuleSectionsFromOwnRow ==
    (Assembled /\ body.functionType \in FunctionTypes) =>
        LET risk == biaDocument.risk_compliance
            iso  == biaDocument.iso_22301_compliance
            type == body.functionType
        IN  /\ \A f \in StringFields("risk_compliance") : risk[f] \notin Placeholders
            /\ \A f \in StringFields("iso_22301_compliance") : iso[f] \notin Placeholders
            /\ iso.risk_assessment.overall_risk \notin Placeholders
            /\ risk.compliance_requirements = requirements[type]
            /\ iso.business_function_classification = classifications[type]
            /\ iso.mtpd = mtpds[type]
            /\ iso.mbco = mbcos[type]
            /\ iso.resource_requirements = resources[type]

\* a support-function document assembled while every adapter was rejected
\* and the predictions are the fallback
C25_Witness ==
    /\ Assembled
    /\ body.functionType = "support"
    /\ AllAdaptersRejected
    /\ predictions.rooster_version = "fallback"

\* C26: for every function_type outside the five types and every region
\* outside na, eu, apac, each rule lookup returns its documented default
C26_UnknownKeyGivesDefault ==
    Assembled =>
        /\ body.functionType \notin FunctionTypes
            => /\ biaDocument.iso_22301_compliance.business_function_classification
                        = "To Be Determined"
               /\ biaDocument.iso_22301_compliance.mtpd = "4 hours"
               /\ biaDocument.iso_22301_compliance.mbco = "60% capacity within MTPD"
               /\ biaDocument.iso_22301_compliance.resource_requirements
                        = "Standard backup procedures"
               /\ biaDocument.risk_compliance.compliance_requirements
                        = "[Standard Controls]"
        /\ \A i \in DOMAIN biaDocument.regional_overlays :
            LET overlay == biaDocument.regional_overlays[i]
            IN  overlay.region \notin {"na", "eu", "apac"}
                    => /\ overlay.legal_entity = "TBD"
                       /\ overlay.regulatory_framework = "Local Regulations"
                       /\ overlay.data_residency = "Local Requirements"
                       /\ overlay.regional_rto = "4 hours"
                       /\ overlay.regional_rpo = "1 hour"

\* the month count of a formatted date
MonthsOf(formatted) == formatted.yyyy * 12 + formatted.MM - 1

C28_CompletenessCountsSummary ==
    Assembled =>
        LET dc == biaDocument.confidence_assessment.data_completeness
        IN  dc.num * 6 = Len(biaDocument.data_sources) * 100 * dc.den

----------------------------------------------------------------------------
(* Properties of overlapping prediction calls *)

\* C29: two generatePredictions calls that overlap never use the same
\* temporary input file nor the same temporary output file, and a call that
\* returns engine predictions returns those computed from its own input
C29_NoSharedTempFile ==
    /\ \A i, j \in InvocationIds :
        (i # j /\ InFlight(i) /\ InFlight(j))
            => /\ invocations[i].inputFile # invocations[j].inputFile
               /\ invocations[i].outputFile # invocations[j].outputFile
    /\ \A i \in InvocationIds :
        invocations[i].pc = "returned"
            => invocations[i].predictions \in {i, "fallback"}

----------------------------------------------------------------------------
(* Properties of the data source health report *)

\* the checks that fulfilled
FulfilledChecks == {s \in HealthSources : healthChecks[s].status = "fulfilled"}

\* C30: getDataSourceHealth returns an object whatever the checks did: an
\* entry for each of the six sources, {status: 'error'} for a rejected
\* check and the check's value otherwise, and overall 'healthy' exactly
\* when at least four of the six checks fulfilled, 'degraded' otherwise
C30_HealthReport ==
    health # Null =>
        /\ DOMAIN health.sources = HealthSources
        /\ \A s \in HealthSources :
            IF s \in FulfilledChecks
            THEN health.sources[s] = healthChecks[s].value
            ELSE health.sources[s] = [status |-> "error"]
        /\ health.overall \in {"healthy", "degraded"}
        /\ health.overall = "healthy" <=> Cardinality(FulfilledChecks) >= 4

\* a report returned with two checks rejected and four fulfilled
C30_Witness ==
    /\ health # Null
    /\ Cardinality(FulfilledChecks) = 4
    /\ health.overall = "healthy"
    /\ \E s \in HealthSources : health.sources[s] = [status |-> "error"]

============================================================================
